---- MODULE Spec2Model ----
(***************************************************************************)
(* CodeQuest AI: the exam session state machine.                           *)
(*                                                                         *)
(* The model covers the root component (src/App.tsx), the exam screen      *)
(* (ExamInterface, src/services/geminiService.ts:292-488), the external    *)
(* calls (generateExamQuestions, gradeCodeSubmission), the results screen  *)
(* (ResultsView, src/components/ProgressView.tsx:150-190), the setup form  *)
(* (SetupForm, src/services/geminiService.ts:1531-1549) and the two        *)
(* localStorage slots.  React state is modelled by one variable per        *)
(* useState; a handler together with the render and the effects it causes  *)
(* is one action.  Callbacks that run later (the auto-submit setTimeout,   *)
(* the completion of an awaited external call) are actions of their own    *)
(* and carry the values their closure captured.                            *)
(***************************************************************************)
EXTENDS Integers, Sequences, FiniteSets, TLC

VARIABLES
  appState, questions, config, userAnswers, timeSpent,      \* App.tsx:10-14
  initialAnswers, initialTimeSpent, initialIdx,             \* App.tsx:17-19
  savedExam, history,                                       \* localStorage
  apiKey,                                                   \* VITE_API_KEY present
  hasSavedExam,                                             \* SetupForm state
  currentIdx, answers, elapsed, isGrading,                  \* ExamInterface state
  grading,          \* the awaited gradeCodeSubmission call of the mounted exam
  isGeneratingTests,                                        \* ExamInterface state
  testGen,          \* the awaited generateTestCases call of the mounted exam
  scope,            \* what is explored: the question sets the generation call
                    \* may return and the caps on outstanding calls and records
  staleGrade,       \* a judging call of an unmounted exam is still outstanding
  timers,           \* scheduled auto-submit callbacks (setTimeout, never cleared)
  hasSavedRef,                                              \* ResultsView ref
  genPending,       \* outstanding generateExamQuestions calls
  alerted,          \* the alert() shown by the last step, "none" if none
  edits,            \* history: ledger operations of the user so far
  lastSaved,        \* history: the in-memory session at the last save & exit
  sinceSave,        \* history: what happened since the last save & exit
  autoSubmits       \* history: auto-submit callbacks scheduled by the mounted exam

appVars   == <<appState, questions, config, userAnswers, timeSpent,
               initialAnswers, initialTimeSpent, initialIdx>>
storeVars == <<savedExam, history>>
examVars  == <<currentIdx, answers, elapsed, isGrading, grading,
               isGeneratingTests, testGen, autoSubmits>>
vars == <<appVars, storeVars, apiKey, scope, hasSavedExam, examVars, staleGrade,
          timers, hasSavedRef, genPending, alerted, edits, lastSaved, sinceSave>>

(***************************************************************************)
(* Bounds of the model.                                                    *)
(***************************************************************************)
\* The source multiplies the limit in minutes by 60 (geminiService.ts:332).
\* The model keeps the multiplication and shortens the minute, so that a
\* limit is reached after a few ticks.
SecondsPerMinute == 1
\* Ticks modelled for a session without a time limit.
MaxElapsed == 1
\* Auto-submit callbacks of unmounted exams that may be waiting to run when
\* another one is scheduled.
MaxTimers == 1
\* History records after which no new session is started.
MaxHistory == 1
\* Generation calls that may be outstanding at once.
MaxGenCalls == 1
\* Ledger operations of the user (select an option, edit code, run code)
\* over the whole life of the stored data.
MaxEdits == 2
\* Records in the stored history when the page is loaded, where a
\* specification starts from a history of earlier visits.
MaxPast == 2

(***************************************************************************)
(* Values.                                                                 *)
(***************************************************************************)
\* config: ExamConfig | null (App.tsx:12), or undefined after a resume from
\* an object without a config property.
NullConfig      == [kind |-> "null"]
UndefinedConfig == [kind |-> "undefined"]
TimeLimits == {0, 1}
Configs    == {[kind |-> "config", timeLimit |-> t] : t \in TimeLimits}
Truthy(c)  == c.kind = "config"

\* JavaScript undefined in a slot that otherwise holds a number, a question
\* array or an answer array.
UndefinedNumber    == -1
UndefinedQuestions == <<[undefined |-> TRUE]>>
UndefinedAnswers   == <<[undefined |-> TRUE]>>
NaN == -1

\* Questions (types.ts:29-44); only the fields the session logic reads.
Q1 == [id |-> 1, type |-> "MCQ", correctOptionId |-> "a"]
Q2 == [id |-> 2, type |-> "CODE", language |-> "python"]
Q3 == [id |-> 3, type |-> "MCQ", correctOptionId |-> "b"]
Q4 == [id |-> 4, type |-> "MCQ", correctOptionId |-> "a"]
\* What the generation call may return.
QuestionSets == {<<Q2>>, <<Q1, Q3, Q4>>}
MixedSets == {<<Q2, Q1>>}
OverlapSets == {<<Q2, Q1>>, <<Q3, Q4>>}
\* JSON.parse(text) as Question[] is not checked for its length
\* (geminiService.ts:109-112): the array may be empty.
SetsWithEmpty == {<<>>, <<Q2, Q1>>}
OptionIds == {"a", "b"}
\* Texts the user may type into the editor.
Codes == {"x=1", "print(1)"}
StrLen(s) == CASE s = "" -> 0
               [] s = "x=1" -> 3
               [] s = "print(1)" -> 8
               [] s = "# Start your code here" -> 22
               [] s = "-- Start your code here" -> 23

\* A UserAnswer (types.ts:54-62) is a function from the property names it
\* has to their values; a missing property reads as undefined.
Has(a, k) == k \in DOMAIN a
Put(a, k, v) == [f \in DOMAIN a \cup {k} |-> IF f = k THEN v ELSE a[f]]
NewAnswer(qid) == [questionId |-> qid]
\* a.k for a string property: "undefined" when a has no property k
Prop(a, k) == IF Has(a, k) THEN a[k] ELSE "undefined"

(***************************************************************************)
(* Map<string, UserAnswer>: the values in insertion order.                 *)
(***************************************************************************)
MapHas(m, qid) == \E i \in 1..Len(m) : m[i].questionId = qid
MapGet(m, qid) == m[CHOOSE i \in 1..Len(m) : m[i].questionId = qid]
\* answers.get(id) || { questionId: id }
Existing(m, qid) == IF MapHas(m, qid) THEN MapGet(m, qid) ELSE NewAnswer(qid)
\* new Map(m).set(id, a): a present key keeps its position
MapSet(m, qid, a) ==
  IF MapHas(m, qid)
  THEN [i \in 1..Len(m) |-> IF m[i].questionId = qid THEN a ELSE m[i]]
  ELSE Append(m, a)
\* Array.from(map.values())
ArrayFromValues(m) == m
\* new Map(arr.map(a => [a.questionId, a]))
RECURSIVE MapFromArray(_)
MapFromArray(arr) ==
  IF arr = <<>> THEN <<>>
  ELSE LET n == Len(arr)
       IN MapSet(MapFromArray(SubSeq(arr, 1, n - 1)), arr[n].questionId, arr[n])
\* useState(initialAnswers ...) (geminiService.ts:303-308)
InitialMap(ia) == IF ia = UndefinedAnswers THEN <<>> ELSE MapFromArray(ia)
\* x || 0 (geminiService.ts:302, 310)
OrZero(n) == IF n = UndefinedNumber \/ n = 0 THEN 0 ELSE n

(***************************************************************************)
(* localStorage slot 'codequest_saved_exam'.                               *)
(***************************************************************************)
NoItem == [kind |-> "none"]
\* Contents that handleSaveExam never writes.
CorruptItems == {[kind |-> "garbage"],      \* JSON.parse throws
                 [kind |-> "jsonNull"],     \* parses to null
                 [kind |-> "jsonObject"]}   \* parses to {} : no property at all
\* JsonStringify that loses the question pointer
JsonStringifyWithoutIdx(cfg, qs, arr, ts, idx) ==
  [kind |-> "json", config |-> cfg, questions |-> qs, answers |-> arr,
   timeSpent |-> ts, currentIdx |-> 0]

\* JSON.stringify(savedState) (App.tsx:56-64); savedAt is not read back.
JsonStringify(cfg, qs, arr, ts, idx) ==
  [kind |-> "json", config |-> cfg, questions |-> qs, answers |-> arr,
   timeSpent |-> ts, currentIdx |-> idx]

(***************************************************************************)
(* Scoring (ResultsView, ProgressView.tsx:153-170).                        *)
(***************************************************************************)
\* questions.find(q => q.id === ans.questionId)
FindQuestion(qs, qid) ==
  LET hits == {i \in 1..Len(qs) : qs[i].id = qid}
  IN IF hits = {} THEN [found |-> FALSE]
     ELSE [found |-> TRUE, q |-> qs[CHOOSE i \in hits : \A j \in hits : i <= j]]
\* GradedCorrect that accepts every selected option
GradedCorrectAnyOption(qs, ans) ==
  LET r == FindQuestion(qs, ans.questionId)
  IN IF ~r.found THEN FALSE
     ELSE IF r.q.type = "MCQ"
          THEN Has(ans, "selectedOptionId")
          ELSE Has(ans, "isCorrect") /\ ans.isCorrect

\* the isCorrect computed for one answer; FALSE when the question is unknown
GradedCorrect(qs, ans) ==
  LET r == FindQuestion(qs, ans.questionId)
  IN IF ~r.found THEN FALSE
     ELSE IF r.q.type = "MCQ"
          THEN Prop(ans, "selectedOptionId") = Prop(r.q, "correctOptionId")
          ELSE Has(ans, "isCorrect") /\ ans.isCorrect
RECURSIVE ScoreOf(_, _)
ScoreOf(qs, arr) ==
  IF arr = <<>> THEN 0
  ELSE ScoreOf(qs, Tail(arr)) + (IF GradedCorrect(qs, Head(arr)) THEN 1 ELSE 0)
\* Percentage with Math.floor in place of Math.round
PercentageTruncated(score, n) ==
  IF n = 0 THEN NaN ELSE (100 * score) \div n

\* Math.round((score / n) * 100): round half up; NaN for 0/0
Percentage(score, n) ==
  IF n = 0 THEN NaN ELSE (200 * score + n) \div (2 * n)
HistoryItem(qs, arr, ts) ==
  [score |-> ScoreOf(qs, arr), totalQuestions |-> Len(qs),
   percentage |-> Percentage(ScoreOf(qs, arr), Len(qs)), timeSpent |-> ts]

(***************************************************************************)
(* Rendering: which screen App mounts (App.tsx:99-148).                    *)
(***************************************************************************)
ExamMounted(as, cfg)    == as = "EXAM" /\ Truthy(cfg)
ResultsMounted(as, cfg) == as = "RESULTS" /\ Truthy(cfg)
SetupMounted(as)        == as \in {"SETUP", "LOADING"}

\* timeLimit > 0 && elapsed >= timeLimit * 60 (geminiService.ts:332, 343)
LimitReached(cfg, e) ==
  cfg.timeLimit > 0 /\ e >= cfg.timeLimit * SecondsPerMinute

\* A scheduled handleSubmitAll.  While its exam is mounted it reads the
\* ledger through answersRef; after the unmount answersRef keeps the last
\* rendered ledger.  elapsed is the value of the render that scheduled it.
LiveTimer(e) == [live |-> TRUE, elapsed |-> e]
Freeze(tm, m) ==
  {IF t.live THEN [live |-> FALSE, elapsed |-> t.elapsed,
                   answers |-> ArrayFromValues(m)] ELSE t : t \in tm}

NoCall == [active |-> FALSE]
NoSession == [saved |-> FALSE]

\* SetupFormSaved when the flag is never reset once it was set
SetupFormSavedSticky(as, saved) == hasSavedExam \/ saved # NoItem

\* hasSavedExam of the SetupForm that is shown after a render
\* (geminiService.ts:1537-1544): a new instance reads the slot once in its
\* mount effect, a kept instance keeps its state.
SetupFormSaved(as, saved) ==
  IF SetupMounted(as)
  THEN IF as = appState THEN hasSavedExam ELSE saved # NoItem
  ELSE FALSE

(***************************************************************************)
(* One render of App after a handler has set the state to the given        *)
(* values: the screens that are mounted, unmounted or kept, with the       *)
(* effects a mount runs.                                                   *)
(***************************************************************************)
Mount(as, cfg, qs, ua, ts, ia, it, ii, saved, tm) ==
  /\ appState' = as /\ config' = cfg /\ questions' = qs
  /\ userAnswers' = ua /\ timeSpent' = ts
  /\ initialAnswers' = ia /\ initialTimeSpent' = it /\ initialIdx' = ii
  /\ savedExam' = saved
  \* SetupForm: a new instance reads the slot once (geminiService.ts:1539-1544);
  \* the SETUP and the LOADING form are different children of the root.
  /\ hasSavedExam' = SetupFormSaved(as, saved)
  \* ExamInterface (geminiService.ts:302-348)
  /\ IF ExamMounted(as, cfg)
     THEN IF ExamMounted(appState, config)
          THEN /\ UNCHANGED <<examVars, staleGrade>>
               /\ timers' = tm
          ELSE /\ currentIdx' = OrZero(ii)
               /\ answers' = InitialMap(ia)
               /\ elapsed' = OrZero(it)
               /\ isGrading' = FALSE
               /\ grading' = NoCall
               /\ isGeneratingTests' = FALSE
               /\ testGen' = NoCall
               /\ UNCHANGED staleGrade
               /\ IF LimitReached(cfg, OrZero(it))
                  THEN /\ Cardinality({t \in tm : ~t.live}) < MaxTimers
                       /\ timers' = tm \cup {LiveTimer(OrZero(it))}
                       /\ autoSubmits' = 1
                  ELSE /\ timers' = tm
                       /\ autoSubmits' = 0
     ELSE /\ currentIdx' = 0 /\ answers' = <<>> /\ elapsed' = 0
          /\ isGrading' = FALSE /\ grading' = NoCall /\ autoSubmits' = 0
          /\ isGeneratingTests' = FALSE /\ testGen' = NoCall
          /\ timers' = Freeze(tm, answers)
          /\ staleGrade' = (staleGrade \/ grading # NoCall)
  \* ResultsView (ProgressView.tsx:151-190): the effect of the first render
  \* prepends the record; hasSavedRef stops every later run of the effect.
  /\ IF ResultsMounted(as, cfg)
     THEN IF ResultsMounted(appState, config) /\ hasSavedRef
          THEN UNCHANGED <<history, hasSavedRef>>
          ELSE /\ history' = <<HistoryItem(qs, ua, ts)>> \o history
               /\ hasSavedRef' = TRUE
     ELSE /\ history' = history
          /\ hasSavedRef' = FALSE

\* The render throws a TypeError: ResultsView at questions.find or
\* questions.length when questions is undefined (ProgressView.tsx:156, 170),
\* ExamInterface at currentQuestion.id when questions has no element at
\* currentIdx (geminiService.ts:323, 491).
RenderThrows(as, cfg, qs, ii) ==
  \/ ResultsMounted(as, cfg) /\ qs = UndefinedQuestions
  \/ /\ ExamMounted(as, cfg)
     /\ \/ qs = UndefinedQuestions
        \/ (IF ExamMounted(appState, config) THEN currentIdx ELSE OrZero(ii))
             >= Len(qs)

\* App renders no error boundary (App.tsx:99-148): an error thrown by a
\* render unmounts the whole tree, and the state of App goes with it.
RootUnmounted == appState = "UNMOUNTED"

\* What a handler that sets the given state does: a render while the root
\* is mounted; afterwards only its writes outside React take place.
Render(as, cfg, qs, ua, ts, ia, it, ii, saved, tm) ==
  IF RootUnmounted
  THEN /\ savedExam' = saved
       /\ timers' = tm
       /\ UNCHANGED <<appVars, history, hasSavedExam, examVars, staleGrade,
                      hasSavedRef>>
  ELSE IF RenderThrows(as, cfg, qs, ii)
  THEN Mount("UNMOUNTED", NullConfig, <<>>, <<>>, 0, <<>>, 0, 0, saved, tm)
  ELSE Mount(as, cfg, qs, ua, ts, ia, it, ii, saved, tm)


(***************************************************************************)
(* App.tsx handlers.                                                       *)
(***************************************************************************)
\* handleStartExam up to the await (App.tsx:21-36); SetupForm.handleSubmit
\* passes the form's config.  Only the SETUP form has the handler.
handleStartExam(examConfig) ==
  /\ appState = "SETUP"
  /\ genPending < scope.genCalls
  /\ Len(history) < scope.history
  /\ Render("LOADING", examConfig, questions, userAnswers, timeSpent,
            <<>>, 0, 0, savedExam, timers)
  /\ genPending' = genPending + 1
  /\ alerted' = "none"
  /\ UNCHANGED edits
  /\ UNCHANGED <<apiKey, scope, lastSaved, sinceSave>>

\* generateExamQuestions resolves (geminiService.ts:109-112, App.tsx:37-38)
GenerationSucceeds(qs) ==
  /\ genPending > 0
  /\ apiKey
  /\ Render("EXAM", config, qs, userAnswers, timeSpent,
            initialAnswers, initialTimeSpent, initialIdx, savedExam, timers)
  /\ genPending' = genPending - 1
  /\ alerted' = "none"
  /\ UNCHANGED edits
  /\ UNCHANGED <<apiKey, scope, lastSaved, sinceSave>>

\* generateExamQuestions rejects: no API key (geminiService.ts:4-10, 43),
\* request error, empty text or unparsable text (geminiService.ts:96-116);
\* the catch of handleStartExam (App.tsx:39-44)
GenerationFails ==
  /\ genPending > 0
  /\ Render("SETUP", config, questions, userAnswers, timeSpent,
            initialAnswers, initialTimeSpent, initialIdx, savedExam, timers)
  /\ genPending' = genPending - 1
  /\ alerted' = "generate"
  /\ UNCHANGED edits
  /\ UNCHANGED <<apiKey, scope, lastSaved, sinceSave>>

\* handleExamComplete without localStorage.removeItem
handleExamCompleteKeepsSnapshot(arr, duration, tm) ==
  /\ Render("RESULTS", config, questions, arr, duration,
            initialAnswers, initialTimeSpent, initialIdx, savedExam, tm)
  /\ alerted' = "none"
  /\ lastSaved' = NoSession
  /\ sinceSave' = sinceSave \cup {"completed"}
  /\ UNCHANGED <<apiKey, scope, genPending, edits>>

\* handleExamComplete (App.tsx:47-52); tm: the callbacks still scheduled
handleExamComplete(arr, duration, tm) ==
  /\ Render("RESULTS", config, questions, arr, duration,
            initialAnswers, initialTimeSpent, initialIdx, NoItem, tm)
  /\ alerted' = "none"
  /\ lastSaved' = NoSession
  /\ sinceSave' = sinceSave \cup {"completed"}
  /\ UNCHANGED <<apiKey, scope, genPending, edits>>

\* handleSaveExam that keeps a snapshot that is already stored
handleSaveExamKeepsFirst(arr, ts, idx) ==
  /\ Truthy(config)
  /\ Render("SETUP", NullConfig, <<>>, <<>>, timeSpent,
            initialAnswers, initialTimeSpent, initialIdx,
            IF savedExam = NoItem
            THEN JsonStringify(config, questions, arr, ts, idx)
            ELSE savedExam, timers)
  /\ alerted' = "none"
  /\ UNCHANGED edits
  /\ lastSaved' = [saved |-> TRUE, questions |-> questions, answers |-> answers,
                   elapsed |-> elapsed, currentIdx |-> currentIdx]
  /\ sinceSave' = {}
  /\ UNCHANGED <<apiKey, scope, genPending>>

\* handleSaveExam (App.tsx:54-69)
handleSaveExam(arr, ts, idx) ==
  /\ Truthy(config)
  /\ Render("SETUP", NullConfig, <<>>, <<>>, timeSpent,
            initialAnswers, initialTimeSpent, initialIdx,
            JsonStringify(config, questions, arr, ts, idx), timers)
  /\ alerted' = "none"
  /\ UNCHANGED edits
  /\ lastSaved' = [saved |-> TRUE, questions |-> questions, answers |-> answers,
                   elapsed |-> elapsed, currentIdx |-> currentIdx]
  /\ sinceSave' = {}
  /\ UNCHANGED <<apiKey, scope, genPending>>

\* handleResumeExam (App.tsx:71-86); the button is rendered by the SETUP
\* form when hasSavedExam (geminiService.ts:1664-1672)
handleResumeExam ==
  /\ appState = "SETUP"
  /\ hasSavedExam
  /\ UNCHANGED <<apiKey, scope, genPending, lastSaved, edits>>
  /\ CASE savedExam = NoItem ->
            /\ alerted' = "none"
            /\ UNCHANGED <<appVars, storeVars, hasSavedExam, examVars,
                           staleGrade, timers, hasSavedRef, sinceSave>>
       [] savedExam.kind \in {"garbage", "jsonNull"} ->
            \* JSON.parse or the read of parsed.config throws
            /\ alerted' = "resume"
            /\ UNCHANGED <<appVars, storeVars, hasSavedExam, examVars,
                           staleGrade, timers, hasSavedRef, sinceSave>>
       [] savedExam.kind = "jsonObject" ->
            /\ Render("EXAM", UndefinedConfig, UndefinedQuestions, userAnswers,
                      timeSpent, UndefinedAnswers, UndefinedNumber,
                      UndefinedNumber, savedExam, timers)
            /\ alerted' = "none"
            /\ sinceSave' = sinceSave \cup {"resumed"}
       [] savedExam.kind = "json" ->
            /\ Render("EXAM", savedExam.config, savedExam.questions,
                      userAnswers, timeSpent, savedExam.answers,
                      savedExam.timeSpent, savedExam.currentIdx,
                      savedExam, timers)
            /\ alerted' = "none"
            /\ sinceSave' = sinceSave \cup {"resumed"}

\* handleRestart (App.tsx:88-97), the button of ResultsView
handleRestart ==
  /\ ResultsMounted(appState, config)
  /\ Render("SETUP", NullConfig, <<>>, <<>>, 0, <<>>, 0, 0, savedExam, timers)
  /\ alerted' = "none"
  /\ UNCHANGED edits
  /\ sinceSave' = sinceSave \cup {"restarted"}
  /\ UNCHANGED <<apiKey, scope, genPending, lastSaved>>

\* onViewProgress of the SETUP form (App.tsx:105)
ViewProgress ==
  /\ appState = "SETUP"
  /\ Render("PROGRESS", config, questions, userAnswers, timeSpent,
            initialAnswers, initialTimeSpent, initialIdx, savedExam, timers)
  /\ alerted' = "none"
  /\ UNCHANGED edits
  /\ UNCHANGED <<apiKey, scope, genPending, lastSaved, sinceSave>>

\* onBack of ProgressView (App.tsx:144)
BackToSetup ==
  /\ appState = "PROGRESS"
  /\ Render("SETUP", config, questions, userAnswers, timeSpent,
            initialAnswers, initialTimeSpent, initialIdx, savedExam, timers)
  /\ alerted' = "none"
  /\ UNCHANGED edits
  /\ UNCHANGED <<apiKey, scope, genPending, lastSaved, sinceSave>>

(***************************************************************************)
(* ExamInterface (geminiService.ts:292-488).                               *)
(***************************************************************************)
\* const currentQuestion = questions[currentIdx] (geminiService.ts:323)
currentQuestion == questions[currentIdx + 1]

\* NextElapsed without the saturation at the limit
NextElapsedUnbounded(cfg, prev) == prev + 1

\* NextElapsed of a timer that does not advance
NextElapsedFrozen(cfg, prev) == prev

\* the updater of setElapsed (geminiService.ts:331-336)
NextElapsed(cfg, prev) == IF LimitReached(cfg, prev) THEN prev ELSE prev + 1

\* One firing of the interval (geminiService.ts:329-340) and, when elapsed
\* changed, the auto-submit effect of the next render (geminiService.ts:342-348).
Tick ==
  /\ ExamMounted(appState, config)
  /\ config.timeLimit = 0 => elapsed < MaxElapsed
  /\ elapsed' = NextElapsed(config, elapsed)
  /\ IF elapsed' # elapsed /\ LimitReached(config, elapsed')
     THEN /\ Cardinality({t \in timers : ~t.live}) < MaxTimers
          /\ timers' = timers \cup {LiveTimer(elapsed')}
          /\ autoSubmits' = autoSubmits + 1
     ELSE UNCHANGED <<timers, autoSubmits>>
  /\ alerted' = "none"
  /\ UNCHANGED edits
  /\ UNCHANGED <<appVars, storeVars, apiKey, scope, hasSavedExam, currentIdx, answers,
                 isGrading, grading, isGeneratingTests, testGen, staleGrade, hasSavedRef, genPending,
                 lastSaved, sinceSave>>

\* the callback of setTimeout(() => handleSubmitAll(), 0) runs
\* (geminiService.ts:344-346, 458-460)
AutoSubmit(t) ==
  /\ t \in timers
  /\ handleExamComplete(IF t.live THEN ArrayFromValues(answers) ELSE t.answers,
                        t.elapsed, timers \ {t})

\* the Submit Exam button (geminiService.ts:523-528, 458-460)
handleSubmitAll ==
  /\ ExamMounted(appState, config)
  /\ handleExamComplete(ArrayFromValues(answers), elapsed, timers)

\* the Save & Exit button (geminiService.ts:462-464, 508-515)
handleSave ==
  /\ ExamMounted(appState, config)
  /\ handleSaveExam(ArrayFromValues(answers), elapsed, currentIdx)

\* a handler that only sets ExamInterface state; a ledger operation of the
\* user counts against the bound
ExamStep(counted) ==
  /\ alerted' = "none"
  /\ IF counted THEN edits < scope.edits /\ edits' = edits + 1 ELSE UNCHANGED edits
  /\ UNCHANGED <<appVars, storeVars, apiKey, scope, hasSavedExam, elapsed, staleGrade,
                 timers, hasSavedRef, genPending, lastSaved, sinceSave,
                 autoSubmits>>

\* sidebar entry, Previous and Next (geminiService.ts:544, 643-651)
SelectQuestion(idx) ==
  /\ ExamMounted(appState, config)
  /\ idx \in 0..(Len(questions) - 1)
  /\ idx # currentIdx
  /\ currentIdx' = idx
  /\ ExamStep(FALSE)
  /\ UNCHANGED <<answers, isGrading, grading, isGeneratingTests, testGen>>

\* handleOptionSelect that adds an entry instead of replacing one
handleOptionSelectAppends(optId) ==
  /\ ExamMounted(appState, config)
  /\ currentQuestion.type = "MCQ"
  /\ answers' = Append(answers, [questionId |-> currentQuestion.id,
                                 selectedOptionId |-> optId])
  /\ ExamStep(TRUE)
  /\ UNCHANGED <<currentIdx, isGrading, grading, isGeneratingTests, testGen>>

\* handleOptionSelect (geminiService.ts:374-381); the options are rendered
\* for a choice question only (geminiService.ts:613-637)
handleOptionSelect(optId) ==
  /\ ExamMounted(appState, config)
  /\ currentQuestion.type = "MCQ"
  /\ answers' = MapSet(answers, currentQuestion.id,
                       [questionId |-> currentQuestion.id,
                        selectedOptionId |-> optId])
  /\ ExamStep(TRUE)
  /\ UNCHANGED <<currentIdx, isGrading, grading, isGeneratingTests, testGen>>

\* getEditorValue (geminiService.ts:482-488)
getEditorValue(m, q) ==
  IF MapHas(m, q.id) /\ Has(MapGet(m, q.id), "code") THEN MapGet(m, q.id).code
  ELSE IF Has(q, "startingCode") THEN q.startingCode
  ELSE IF q.language = "sql" THEN "-- Start your code here"
  ELSE "# Start your code here"

\* handleCodeChange that starts a new answer from the code alone
handleCodeChangeFresh(code) ==
  /\ ExamMounted(appState, config)
  /\ currentQuestion.type = "CODE"
  /\ code # getEditorValue(answers, currentQuestion)
  /\ answers' = MapSet(answers, currentQuestion.id,
                       [questionId |-> currentQuestion.id, code |-> code])
  /\ ExamStep(TRUE)
  /\ UNCHANGED <<currentIdx, isGrading, grading, isGeneratingTests, testGen>>

\* handleCodeChange (geminiService.ts:383-388); the editor is rendered for a
\* code question only (geminiService.ts:661) and reports changed text
handleCodeChange(code) ==
  /\ ExamMounted(appState, config)
  /\ currentQuestion.type = "CODE"
  /\ code # getEditorValue(answers, currentQuestion)
  /\ answers' = MapSet(answers, currentQuestion.id,
                       Put(Existing(answers, currentQuestion.id), "code", code))
  /\ ExamStep(TRUE)
  /\ UNCHANGED <<currentIdx, isGrading, grading, isGeneratingTests, testGen>>

\* gradeCodeSubmission (geminiService.ts:119-173): what the judge answers,
\* and the result of the catch block
JudgeAnswers == {[passed |-> b, feedback |-> "feedback", output |-> "stdout"] :
                  b \in BOOLEAN}
FallbackResult == [passed |-> FALSE, feedback |-> "System error during grading.",
                   output |-> "Error connecting to Judge AI."]

\* handleRunCode up to the await (geminiService.ts:390-404); Run and Submit
\* are disabled while isGrading (geminiService.ts:835-844).  Without an API
\* key getAiClient throws before the try of gradeCodeSubmission
\* (geminiService.ts:120), the await rejects and the handler ends there.
handleRunCode ==
  /\ ExamMounted(appState, config)
  /\ currentQuestion.type = "CODE"
  /\ ~isGrading
  /\ StrLen(getEditorValue(answers, currentQuestion)) > 0
  /\ isGrading' = TRUE
  /\ IF apiKey
     THEN /\ grading' = [active |-> TRUE, question |-> currentQuestion,
                         userCode |-> getEditorValue(answers, currentQuestion),
                         answers |-> answers]
          /\ ExamStep(TRUE)
     ELSE /\ grading' = NoCall
          /\ ExamStep(TRUE)
  /\ UNCHANGED <<currentIdx, answers, isGeneratingTests, testGen>>

\* JudgedLedger that stores the judgment on the question shown when the
\* call returns
JudgedLedgerAtCurrent(call, result) ==
  MapSet(call.answers, currentQuestion.id,
         Put(Put(Put(Put(Existing(call.answers, currentQuestion.id),
                         "code", call.userCode),
                     "isCorrect", result.passed),
                 "feedback", result.feedback),
             "output", result.output))

\* JudgedLedger that stores nothing when the judge could not be reached
JudgedLedgerSkipsFallback(call, result) ==
  IF result.feedback = "System error during grading." THEN call.answers
  ELSE MapSet(call.answers, call.question.id,
              Put(Put(Put(Put(Existing(call.answers, call.question.id),
                              "code", call.userCode),
                          "isCorrect", result.passed),
                      "feedback", result.feedback),
                  "output", result.output))

\* the rest of handleRunCode (geminiService.ts:406-416): answers, existing
\* and currentQuestion are those of the render that started the call
JudgedLedger(call, result) ==
  LET existing == Existing(call.answers, call.question.id)
      ans == Put(Put(Put(Put(existing, "code", call.userCode),
                         "isCorrect", result.passed),
                     "feedback", result.feedback),
                 "output", result.output)
  IN MapSet(call.answers, call.question.id, ans)

\* the judging call of the mounted exam returns: an answer of the judge, or
\* the fallback after a failed request, an empty or an unparsable response
JudgingReturns(result) ==
  /\ grading # NoCall
  /\ answers' = JudgedLedger(grading, result)
  /\ isGrading' = FALSE
  /\ grading' = NoCall
  /\ ExamStep(FALSE)
  /\ UNCHANGED <<currentIdx, isGeneratingTests, testGen>>

\* StaleJudgingReturns that still marks the submitted answers as judged
StaleJudgingReturnsRegrades ==
  /\ staleGrade
  /\ staleGrade' = FALSE
  /\ alerted' = "none"
  /\ userAnswers' = [i \in 1..Len(userAnswers) |->
                       Put(userAnswers[i], "isCorrect", TRUE)]
  /\ UNCHANGED <<appState, questions, config, timeSpent, initialAnswers,
                 initialTimeSpent, initialIdx, storeVars, apiKey, scope,
                 hasSavedExam, examVars, timers, hasSavedRef, genPending,
                 edits, lastSaved, sinceSave>>

\* a judging call returns after its exam was unmounted: its state setters
\* have no component left to update
StaleJudgingReturns ==
  /\ staleGrade
  /\ staleGrade' = FALSE
  /\ alerted' = "none"
  /\ UNCHANGED <<appVars, storeVars, apiKey, scope, hasSavedExam, examVars, timers,
                 hasSavedRef, genPending, edits, lastSaved, sinceSave>>

\* the code an untouched editor shows (geminiService.ts:424, 486-487)
PlaceholderCode(q) ==
  IF Has(q, "startingCode") THEN q.startingCode
  ELSE IF q.language = "sql" THEN "-- Start your code here"
  ELSE "# Start your code here"

\* handleResetCode (geminiService.ts:419-432) when the user confirms; the
\* button belongs to the editor of a code question (geminiService.ts:661-676)
handleResetCode ==
  /\ ExamMounted(appState, config)
  /\ currentQuestion.type = "CODE"
  /\ answers' = MapSet(answers, currentQuestion.id,
                       Put(Existing(answers, currentQuestion.id), "code",
                           PlaceholderCode(currentQuestion)))
  /\ ExamStep(TRUE)
  /\ UNCHANGED <<currentIdx, isGrading, grading, isGeneratingTests, testGen>>

\* cases.map((c, i) => `Case ${i+1}:\n${c}`).join('\n\n') for the cases the
\* call may return: generated cases or one of its three error texts
\* (geminiService.ts:215-221, 443)
TestInputs == {"Case 1:\ngenerated", "Case 1:\nError generating test cases. Please try again."}

\* handleGenerateTestCases up to the await (geminiService.ts:434-442); the
\* buttons are disabled while isGeneratingTests (geminiService.ts:769-780).
\* Without an API key getAiClient throws (geminiService.ts:176), the catch
\* and the finally of the handler run and nothing is stored.
handleGenerateTestCases ==
  /\ ExamMounted(appState, config)
  /\ currentQuestion.type = "CODE"
  /\ ~isGeneratingTests
  /\ IF apiKey
     THEN /\ isGeneratingTests' = TRUE
          /\ testGen' = [active |-> TRUE, question |-> currentQuestion,
                         existing |-> Existing(answers, currentQuestion.id),
                         answers |-> answers]
     ELSE UNCHANGED <<isGeneratingTests, testGen>>
  /\ ExamStep(TRUE)
  /\ UNCHANGED <<currentIdx, answers, isGrading, grading>>

\* the rest of handleGenerateTestCases (geminiService.ts:443-455): existing
\* and answers are those of the render that started the call
TestCasesReturn(formattedInput) ==
  /\ testGen # NoCall
  /\ answers' = MapSet(testGen.answers, testGen.question.id,
                       Put(testGen.existing, "testInput", formattedInput))
  /\ isGeneratingTests' = FALSE
  /\ testGen' = NoCall
  /\ ExamStep(FALSE)
  /\ UNCHANGED <<currentIdx, isGrading, grading>>

\* isAnswered (geminiService.ts:476-480)
isAnswered(m, qId) ==
  IF ~MapHas(m, qId) THEN FALSE
  ELSE LET a == MapGet(m, qId)
       IN Has(a, "selectedOptionId") \/ (Has(a, "code") /\ StrLen(a.code) > 5)

\* the number on the badge of the sidebar button (geminiService.ts:1145-1147):
\* Array.from(answers.values()).filter(a => a.selectedOptionId ||
\* (a.code && a.code.length > 10)).length; every option id is a non-empty
\* string
answeredBadge(m) ==
  Cardinality({i \in 1..Len(m) :
                 \/ Has(m[i], "selectedOptionId")
                 \/ (Has(m[i], "code") /\ StrLen(m[i].code) > 10)})

\* formatTime (geminiService.ts:360-364): the minutes and the seconds that
\* are printed, each padded to two digits
formatTime(seconds) == [m |-> seconds \div 60, s |-> seconds % 60]
\* getTimerDisplay (geminiService.ts:366-372)
getTimerDisplay(timeLimit, e) ==
  IF timeLimit = 0 THEN formatTime(e)
  ELSE LET remaining == IF timeLimit * SecondsPerMinute - e > 0
                        THEN timeLimit * SecondsPerMinute - e ELSE 0
       IN formatTime(remaining)

(***************************************************************************)
(* ProgressView (ProgressView.tsx:9-29).                                   *)
(***************************************************************************)
\* curr.percentage of a record read from the stored history: JSON.stringify
\* writes NaN as null (ProgressView.tsx:187), and null counts as 0 in a sum
\* and in Math.max
ReadPercentage(r) == IF r.percentage = NaN THEN 0 ELSE r.percentage
\* history.reduce((acc, curr) => acc + curr.percentage, 0)
RECURSIVE SumPercentages(_)
SumPercentages(h) ==
  IF h = <<>> THEN 0
  ELSE SumPercentages(SubSeq(h, 1, Len(h) - 1)) + ReadPercentage(h[Len(h)])
\* Math.max(...history.map(h => h.percentage)) for a history with a record
RECURSIVE MaxPercentage(_)
MaxPercentage(h) ==
  IF Len(h) = 1 THEN ReadPercentage(h[1])
  ELSE LET m == MaxPercentage(Tail(h))
       IN IF ReadPercentage(h[1]) > m THEN ReadPercentage(h[1]) ELSE m
totalExams(h) == Len(h)
\* avgScore with Math.floor in place of Math.round
avgScoreTruncated(h) ==
  IF totalExams(h) > 0 THEN SumPercentages(h) \div totalExams(h) ELSE 0

\* Math.round of the mean (ProgressView.tsx:20-22): a half is rounded up
avgScore(h) ==
  IF totalExams(h) > 0
  THEN (2 * SumPercentages(h) + totalExams(h)) \div (2 * totalExams(h))
  ELSE 0
topScore(h) == IF totalExams(h) > 0 THEN MaxPercentage(h) ELSE 0

(***************************************************************************)
(* Environment.                                                            *)
(***************************************************************************)
\* The page is loaded again, possibly from another build: memory, timers
\* and outstanding calls are gone, localStorage stays.
AppRestart(key) ==
  /\ appState' = "SETUP" /\ questions' = <<>> /\ config' = NullConfig
  /\ userAnswers' = <<>> /\ timeSpent' = 0
  /\ initialAnswers' = <<>> /\ initialTimeSpent' = 0 /\ initialIdx' = 0
  /\ apiKey' = key
  /\ hasSavedExam' = (savedExam # NoItem)
  /\ currentIdx' = 0 /\ answers' = <<>> /\ elapsed' = 0 /\ isGrading' = FALSE
  /\ grading' = NoCall /\ autoSubmits' = 0 /\ staleGrade' = FALSE
  /\ isGeneratingTests' = FALSE /\ testGen' = NoCall
  /\ timers' = {} /\ hasSavedRef' = FALSE /\ genPending' = 0
  /\ alerted' = "none"
  /\ UNCHANGED <<storeVars, scope, edits, lastSaved, sinceSave>>

\* The stored snapshot is damaged outside the application.
CorruptSnapshot(item) ==
  /\ savedExam.kind = "json"
  /\ savedExam' = item
  /\ lastSaved' = NoSession
  /\ alerted' = "none"
  /\ UNCHANGED <<appVars, history, apiKey, scope, hasSavedExam, examVars, staleGrade,
                 timers, hasSavedRef, genPending, edits, sinceSave>>

\* the state of the page after it is loaded with the stored history h and an
\* empty snapshot slot
Loaded(h) ==
  /\ appState = "SETUP" /\ questions = <<>> /\ config = NullConfig
  /\ userAnswers = <<>> /\ timeSpent = 0
  /\ initialAnswers = <<>> /\ initialTimeSpent = 0 /\ initialIdx = 0
  /\ savedExam = NoItem /\ history = h
  /\ apiKey \in BOOLEAN
  /\ hasSavedExam = FALSE
  /\ currentIdx = 0 /\ answers = <<>> /\ elapsed = 0 /\ isGrading = FALSE
  /\ grading = NoCall /\ autoSubmits = 0 /\ staleGrade = FALSE
  /\ isGeneratingTests = FALSE /\ testGen = NoCall
  /\ timers = {} /\ hasSavedRef = FALSE /\ genPending = 0
  /\ alerted = "none" /\ edits = 0
  /\ lastSaved = NoSession /\ sinceSave = {"never"}

\* the state of the page after it is loaded, before any storage is written
Start == Loaded(<<>>)

Init == Start /\ scope = [sets |-> QuestionSets, genCalls |-> MaxGenCalls,
                          history |-> MaxHistory, edits |-> MaxEdits]

\* the same program when the generation call returns a code question
\* followed by a choice question
InitMixed == Start /\ scope = [sets |-> MixedSets, genCalls |-> MaxGenCalls,
                               history |-> MaxHistory, edits |-> MaxEdits]

\* the same program with two question sets of the same length, when a
\* second generation call may be started while the first is outstanding and
\* after a first record was written
InitOverlap == Start /\ scope = [sets |-> OverlapSets,
                                 genCalls |-> MaxGenCalls + 1,
                                 history |-> MaxHistory + 1,
                                 edits |-> MaxEdits - 1]

Next ==
  \/ \E c \in Configs : handleStartExam(c)
  \/ \E qs \in scope.sets : GenerationSucceeds(qs)
  \/ GenerationFails
  \/ handleResumeExam
  \/ handleRestart
  \/ ViewProgress
  \/ BackToSetup
  \/ Tick
  \/ \E t \in timers : AutoSubmit(t)
  \/ handleSubmitAll
  \/ handleSave
  \/ \E idx \in 0..2 : SelectQuestion(idx)
  \/ \E o \in OptionIds : handleOptionSelect(o)
  \/ \E c \in Codes : handleCodeChange(c)
  \/ handleRunCode
  \/ \E r \in JudgeAnswers \cup {FallbackResult} : JudgingReturns(r)
  \/ handleResetCode
  \/ handleGenerateTestCases
  \/ \E ti \in TestInputs : TestCasesReturn(ti)
  \/ StaleJudgingReturns
  \/ \E k \in BOOLEAN : AppRestart(k)
  \/ \E item \in CorruptItems : CorruptSnapshot(item)

\* the program with the mixed question set and one ledger operation less
InitLive == Start /\ scope = [sets |-> MixedSets, genCalls |-> MaxGenCalls,
                              history |-> MaxHistory, edits |-> MaxEdits - 1]

\* the program when the generation call may also return an empty array
InitWithEmpty == Start /\ scope = [sets |-> SetsWithEmpty,
                                   genCalls |-> MaxGenCalls,
                                   history |-> MaxHistory,
                                   edits |-> MaxEdits - 1]

\* Records of earlier visits: p of 100 questions answered correctly.
PastPercentages == {33, 100}
PastRecords == {[score |-> p, totalQuestions |-> 100, percentage |-> p,
                 timeSpent |-> 0] : p \in PastPercentages}
PastHistories == UNION {[1..n -> PastRecords] : n \in 0..MaxPast}

\* the program when the page is loaded with a history of earlier visits
InitProgress ==
  /\ \E h \in PastHistories : Loaded(h)
  /\ scope = [sets |-> MixedSets, genCalls |-> MaxGenCalls,
              history |-> MaxPast + MaxHistory, edits |-> MaxEdits - 1]

\* setInterval fires every second while the exam is mounted
\* (geminiService.ts:329-340), a callback scheduled with setTimeout(0) runs
\* (geminiService.ts:344-346), and a judging request that was sent is
\* answered or fails (geminiService.ts:147-171): none is postponed forever.
Fairness ==
  /\ WF_vars(Tick)
  /\ WF_vars(\E t \in timers : AutoSubmit(t))
  /\ WF_vars(\E r \in JudgeAnswers \cup {FallbackResult} : JudgingReturns(r))

Spec == Init /\ [][Next]_vars
SpecLive == InitLive /\ [][Next]_vars /\ Fairness
SpecWithEmpty == InitWithEmpty /\ [][Next]_vars
SpecProgress == InitProgress /\ [][Next]_vars
SpecMixed == InitMixed /\ [][Next]_vars
SpecOverlap == InitOverlap /\ [][Next]_vars

(***************************************************************************)
(* Properties.                                                             *)
(***************************************************************************)
\* C1: a resume of the snapshot written by the last save & exit, with or
\* without a reload of the page in between, mounts an exam whose question
\* set, ledger, elapsed time and question pointer are those the session had
\* when it was saved.
C1_ResumeRestoresSavedSession ==
  [][(handleResumeExam /\ lastSaved.saved) =>
       /\ appState' = "EXAM"
       /\ questions' = lastSaved.questions
       /\ answers' = lastSaved.answers
       /\ elapsed' = lastSaved.elapsed
       /\ currentIdx' = lastSaved.currentIdx]_vars

\* C1 witness: an exam that runs without an API key was resumed after a
\* reload (generation needs the key); it shows the saved ledger of two
\* answers, the saved second and the saved pointer.
C1_ResumedAfterReload ==
  /\ ExamMounted(appState, config) /\ ~apiKey
  /\ lastSaved.saved /\ "resumed" \in sinceSave
  /\ questions = lastSaved.questions
  /\ answers = lastSaved.answers /\ Len(answers) = 2
  /\ elapsed = lastSaved.elapsed /\ elapsed = 1
  /\ currentIdx = lastSaved.currentIdx /\ currentIdx = 1

\* C2 as stated: a snapshot is stored exactly when the user has saved and
\* has not resumed, completed or restarted since.
C2_SnapshotIffSavedAndUntouched ==
  (savedExam # NoItem) <=> (sinceSave = {})

\* C2 as amended: a snapshot is stored exactly when the user has saved and
\* has not completed or restarted a session since; a resume keeps it.
C2_SnapshotIffSavedAndNotCompleted ==
  (savedExam # NoItem) <=>
    (sinceSave \cap {"never", "completed", "restarted"} = {})

\* C2 witness: a resumed exam is running and its snapshot is still stored.
C2_SnapshotKeptByResume ==
  /\ ExamMounted(appState, config)
  /\ "resumed" \in sinceSave
  /\ savedExam.kind = "json"

\* C3: a mounted exam has scheduled its automatic submission once if its
\* positive limit is reached and never before; with limit 0 it has never
\* scheduled one.  A tick at the limit changes nothing, so the count stays 1.
C3_AutoSubmitOnce ==
  ExamMounted(appState, config) =>
    /\ autoSubmits = (IF config.timeLimit > 0
                         /\ elapsed >= config.timeLimit * SecondsPerMinute
                      THEN 1 ELSE 0)
    /\ Cardinality({t \in timers : t.live}) = autoSubmits
    /\ (config.timeLimit = 0 => \A t \in timers : ~t.live)

\* C3 witness: the limit is reached, one callback is scheduled.
C3_LimitReachedOneCallback ==
  /\ ExamMounted(appState, config)
  /\ config.timeLimit > 0
  /\ elapsed = config.timeLimit * SecondsPerMinute
  /\ autoSubmits = 1
  /\ LiveTimer(elapsed) \in timers

\* the questions whose answer in arr is correct: option match for a choice
\* question, the attached judgment for a code question
CorrectQuestions(qs, arr) ==
  {i \in 1..Len(qs) :
     \E j \in 1..Len(arr) :
       /\ arr[j].questionId = qs[i].id
       /\ IF qs[i].type = "MCQ"
          THEN Has(arr[j], "selectedOptionId")
               /\ arr[j].selectedOptionId = qs[i].correctOptionId
          ELSE Has(arr[j], "isCorrect") /\ arr[j].isCorrect = TRUE}
\* p is 100 * s / n rounded to the nearest integer, a half rounded up
IsRounded(p, s, n) ==
  IF n = 0 THEN p = NaN
  ELSE 2 * p * n - n <= 200 * s /\ 200 * s < 2 * p * n + n

\* C4: every history record that is written holds the number of questions,
\* as score the number of questions answered correctly at that moment and
\* as percentage round(100 * score / totalQuestions) (not a number when the
\* question set is empty).
C4_RecordedScoreAndPercentage ==
  [][Len(history') = Len(history) + 1 =>
       LET h == history'[1]
           n == Len(questions')
           s == Cardinality(CorrectQuestions(questions', userAnswers'))
       IN /\ h.totalQuestions = n
          /\ h.score = s
          /\ IsRounded(h.percentage, s, n)
          /\ h.timeSpent = timeSpent']_vars

\* C4 witness: the results of a session of three choice questions with two
\* correct answers are shown and recorded with score 2 and 67 percent.
C4_TwoOfThreeRecorded ==
  /\ ResultsMounted(appState, config) /\ hasSavedRef
  /\ questions = <<Q1, Q3, Q4>>
  /\ Cardinality(CorrectQuestions(questions, userAnswers)) = 2
  /\ history[1].score = 2 /\ history[1].totalQuestions = 3
  /\ history[1].percentage = 67

AllowedTransitions ==
  {<<"SETUP", "LOADING">>, <<"LOADING", "EXAM">>, <<"LOADING", "SETUP">>,
   <<"SETUP", "EXAM">>, <<"EXAM", "RESULTS">>, <<"EXAM", "SETUP">>,
   <<"RESULTS", "SETUP">>, <<"SETUP", "PROGRESS">>, <<"PROGRESS", "SETUP">>}

\* C5 as stated: the controller is in one of the five states, every change
\* of state is one of the nine listed transitions, Setup -> Exam happens
\* only with a snapshot stored, and nothing the user can request while
\* Loading changes the state.
C5_OnlyListedTransitions ==
  /\ appState \in {"SETUP", "LOADING", "EXAM", "RESULTS", "PROGRESS"}
  /\ [][/\ appState' # appState => <<appState, appState'>> \in AllowedTransitions
        /\ (appState = "SETUP" /\ appState' = "EXAM") => savedExam # NoItem
        /\ (appState = "LOADING" /\ appState' # "LOADING") =>
              genPending' < genPending \/ genPending' = 0]_vars

\* C6: while the controller is in Results no snapshot is stored, and after
\* a completed session no resume is offered until the next save.
C6_ResultsHasNoSnapshot ==
  /\ appState = "RESULTS" => savedExam = NoItem
  /\ "completed" \in sinceSave => savedExam = NoItem /\ ~hasSavedExam

\* C6 witness: the results of a session that was resumed from a snapshot.
C6_ResultsAfterResume ==
  /\ ResultsMounted(appState, config) /\ hasSavedRef
  /\ "resumed" \in sinceSave

\* C7 as stated: a failed generation returns the controller to Setup, shows
\* the error and leaves no question set, ledger or configuration of the
\* failed session in memory.
C7_GenerationFailureKeepsNothing ==
  [][GenerationFails =>
       /\ appState' = "SETUP"
       /\ alerted' = "generate"
       /\ questions' = <<>>
       /\ answers' = <<>>
       /\ config' = NullConfig]_vars

\* a judging operation fails: the request, the response or its parsing
\* fails, or there is no API key
JudgingFails ==
  \/ JudgingReturns(FallbackResult)
  \/ handleRunCode /\ ~apiKey
JudgedId == IF grading # NoCall THEN grading.question.id ELSE currentQuestion.id

\* C8 as stated: after every failure of the judging call the answer of the
\* judged question carries the fallback feedback, is not correct, and the
\* session is still in Exam.
C8_JudgingFailureStoresFallback ==
  [][JudgingFails =>
       /\ appState' = "EXAM"
       /\ MapHas(answers', JudgedId)
       /\ LET a == MapGet(answers', JudgedId)
          IN /\ Has(a, "feedback")
             /\ a.feedback = "System error during grading."
             /\ Has(a, "isCorrect") => a.isCorrect = FALSE]_vars

\* C9 as stated: after every failure of the judging call the answer of the
\* judged question is what it was before the call returned, and the session
\* is still in Exam.
C9_JudgingFailureLeavesAnswer ==
  [][JudgingFails =>
       /\ appState' = "EXAM"
       /\ MapHas(answers', JudgedId) <=> MapHas(answers, JudgedId)
       /\ MapHas(answers, JudgedId) =>
            MapGet(answers', JudgedId) = MapGet(answers, JudgedId)]_vars

\* C9 as amended: the answer is left unchanged only when the call fails
\* before a request is made (no API key); when the request fails the answer
\* gets the submitted code and the fallback judgment.  Either way the
\* controller stays in Exam.
C9_JudgingFailureOutcome ==
  [][/\ JudgingReturns(FallbackResult) =>
          /\ appState' = "EXAM"
          /\ MapHas(answers', grading.question.id)
          /\ LET a == MapGet(answers', grading.question.id)
             IN /\ a.code = grading.userCode
                /\ a.isCorrect = FALSE
                /\ a.feedback = "System error during grading."
                /\ a.output = "Error connecting to Judge AI."
     /\ (handleRunCode /\ ~apiKey) =>
          /\ appState' = "EXAM"
          /\ answers' = answers]_vars

\* C9 witness: the fallback judgment is stored on an answer of the ledger.
C9_FallbackStored ==
  /\ ExamMounted(appState, config) /\ ~isGrading
  /\ \E i \in 1..Len(answers) :
       /\ Has(answers[i], "feedback")
       /\ answers[i].feedback = "System error during grading."
       /\ answers[i].isCorrect = FALSE

\* C10 as stated: a resume from a corrupted snapshot shows the message and
\* changes nothing: the controller stays in Setup and no question set,
\* ledger, elapsed time, pointer or configuration is restored.
C10_CorruptResumeChangesNothing ==
  [][(handleResumeExam /\ savedExam \in CorruptItems) =>
       /\ alerted' = "resume"
       /\ appState' = "SETUP"
       /\ UNCHANGED <<appVars, examVars>>]_vars

\* C11: a submit of the whole exam while a judging call is outstanding
\* passes the ledger of that moment to Results and records its score; when
\* the call returns afterwards, the answers shown, the time and the history
\* stay as they are.
C11_SubmitDiscardsJudging ==
  [][/\ (handleSubmitAll /\ grading # NoCall) =>
          /\ appState' = "RESULTS"
          /\ userAnswers' = ArrayFromValues(answers)
          /\ Len(history') = Len(history) + 1
          /\ history'[1].score =
               Cardinality(CorrectQuestions(questions, ArrayFromValues(answers)))
          /\ staleGrade'
     /\ StaleJudgingReturns =>
          UNCHANGED <<appState, questions, userAnswers, timeSpent, history>>]_vars

\* C11 witness: the results of an exam that was submitted while its judging
\* call was outstanding; the call has not returned yet.
C11_SubmittedWhileJudging ==
  /\ ResultsMounted(appState, config) /\ hasSavedRef
  /\ staleGrade
  /\ userAnswers # <<>>

\* C12 as stated: every entry into Results puts exactly one new record in
\* front of the history and leaves the earlier records as they were; no
\* other step changes the history.
C12_EveryResultsEntryPrependsOneRecord ==
  [][IF appState # "RESULTS" /\ appState' = "RESULTS"
     THEN Len(history') = Len(history) + 1 /\ Tail(history') = history
     ELSE history' = history]_vars

\* C13 as stated: in a running exam isAnswered is false for a question
\* without an answer and for an answer that holds nothing but the
\* placeholder code of the editor, and it is true exactly for an answer
\* with a selected option or with code longer than the threshold of 5.
C13_IsAnsweredIgnoresPlaceholder ==
  ExamMounted(appState, config) =>
    \A i \in 1..Len(questions) :
      LET q == questions[i]
          has == MapHas(answers, q.id)
          a == MapGet(answers, q.id)
      IN /\ ~has => ~isAnswered(answers, q.id)
         /\ (has /\ DOMAIN a = {"questionId", "code"}
                 /\ a.code = PlaceholderCode(q)) => ~isAnswered(answers, q.id)
         /\ isAnswered(answers, q.id) <=>
              (has /\ (Has(a, "selectedOptionId")
                       \/ (Has(a, "code") /\ StrLen(a.code) > 5)))

\* C14 as stated: when a judging call completes, the answer of every
\* question other than the judged one is what it was just before the
\* completion, so what the user entered during the call is kept.
C14_JudgingKeepsConcurrentChanges ==
  [][\A r \in JudgeAnswers \cup {FallbackResult} :
       JudgingReturns(r) =>
         \A i \in 1..Len(answers) :
           answers[i].questionId # grading.question.id =>
             /\ MapHas(answers', answers[i].questionId)
             /\ MapGet(answers', answers[i].questionId) = answers[i]]_vars

\* C15: when the judge answers, its verdict, feedback and output are on the
\* answer of the question the call was started for, wherever the user is
\* now, and no answer of another question carries a judgment of this call.
C15_JudgmentGoesToJudgedQuestion ==
  [][\A r \in JudgeAnswers :
       JudgingReturns(r) =>
         LET qid == grading.question.id
         IN /\ MapHas(answers', qid)
            /\ MapGet(answers', qid).isCorrect = r.passed
            /\ MapGet(answers', qid).feedback = r.feedback
            /\ MapGet(answers', qid).output = r.output
            /\ \A j \in 1..Len(answers') :
                 answers'[j].questionId # qid =>
                   /\ ~Has(answers'[j], "isCorrect")
                   /\ ~Has(answers'[j], "feedback")
                   /\ ~Has(answers'[j], "output")]_vars

\* C15 witness: the choice question is shown, the judgment is on the answer
\* of the code question and nowhere else.
C15_JudgedWhileElsewhere ==
  /\ ExamMounted(appState, config) /\ ~isGrading
  /\ currentQuestion.type = "MCQ"
  /\ MapHas(answers, Q2.id)
  /\ Has(MapGet(answers, Q2.id), "feedback")
  /\ MapGet(answers, Q2.id).feedback = "feedback"
  /\ ~MapHas(answers, currentQuestion.id)

\* every answer of m for a question other than qid is in n unchanged, and n
\* has no entry for a question other than qid that m has not
OthersUnchanged(m, n, qid) ==
  /\ \A i \in 1..Len(m) :
       m[i].questionId # qid =>
         MapHas(n, m[i].questionId) /\ MapGet(n, m[i].questionId) = m[i]
  /\ \A j \in 1..Len(n) :
       n[j].questionId # qid => MapHas(m, n[j].questionId)

\* C16: selecting an option leaves, for the question shown, one answer that
\* holds the question id and the selected option and nothing else, whatever
\* the option is, and leaves the answers of the other questions alone.
C16_OptionSelectReplacesAnswer ==
  [][\A o \in OptionIds :
       handleOptionSelect(o) =>
         LET qid == currentQuestion.id
         IN /\ Cardinality({i \in 1..Len(answers') :
                              answers'[i].questionId = qid}) = 1
            /\ MapGet(answers', qid) = [questionId |-> qid, selectedOptionId |-> o]
            /\ OthersUnchanged(answers, answers', qid)]_vars

\* C16 witness: two selections were made and the ledger holds one answer,
\* the option that is not the correct one of the first question.
C16_SelectionReplaced ==
  /\ ExamMounted(appState, config)
  /\ questions = <<Q1, Q3, Q4>>
  /\ edits = 2 /\ Len(answers) = 1
  /\ answers[1] = [questionId |-> Q1.id, selectedOptionId |-> "b"]

\* C17: a code edit leaves, for the question shown, an answer with the new
\* code and with every other property (verdict, feedback, output, test
\* input) as it was, and leaves the answers of the other questions alone.
C17_CodeEditKeepsJudgment ==
  [][\A c \in Codes :
       handleCodeChange(c) =>
         LET qid == currentQuestion.id
             old == Existing(answers, qid)
             new == MapGet(answers', qid)
         IN /\ MapHas(answers', qid)
            /\ new.code = c
            /\ DOMAIN new = DOMAIN old \cup {"code"}
            /\ \A k \in DOMAIN old \ {"code"} : new[k] = old[k]
            /\ OthersUnchanged(answers, answers', qid)]_vars

\* C17 witness: a resumed exam whose snapshot holds a judged answer; the
\* code of that answer has been edited since and the judgment is still on it.
C17_EditedAfterJudgment ==
  /\ ExamMounted(appState, config)
  /\ lastSaved.saved /\ "resumed" \in sinceSave
  /\ MapHas(answers, Q2.id) /\ MapHas(lastSaved.answers, Q2.id)
  /\ LET a == MapGet(answers, Q2.id)
         b == MapGet(lastSaved.answers, Q2.id)
     IN /\ Has(b, "feedback") /\ Has(a, "feedback")
        /\ a.feedback = b.feedback /\ a.isCorrect = b.isCorrect
        /\ a.output = b.output
        /\ a.code = "x=1" /\ b.code # "x=1"

\* C18: without a limit a tick adds exactly one second to the elapsed time;
\* with a limit of L seconds the elapsed time of a running exam, resumed or
\* not, is at most L and the timer shows L - elapsed, which is not negative.
C18_ElapsedSaturatesAtLimit ==
  /\ [](ExamMounted(appState, config) /\ config.timeLimit > 0 =>
          LET L == config.timeLimit * SecondsPerMinute
          IN /\ elapsed <= L
             /\ getTimerDisplay(config.timeLimit, elapsed) = formatTime(L - elapsed)
             /\ getTimerDisplay(config.timeLimit, elapsed).m >= 0
             /\ getTimerDisplay(config.timeLimit, elapsed).s >= 0)
  /\ [][(Tick /\ config.timeLimit = 0) => elapsed' = elapsed + 1]_vars

\* C18 witness: an exam resumed with its time used up shows 00:00.
C18_ResumedAtLimit ==
  /\ ExamMounted(appState, config) /\ "resumed" \in sinceSave
  /\ config.timeLimit > 0
  /\ elapsed = config.timeLimit * SecondsPerMinute
  /\ initialTimeSpent = elapsed
  /\ getTimerDisplay(config.timeLimit, elapsed) = [m |-> 0, s |-> 0]

\* C20: a stored snapshot written by the application is the session of the
\* most recent save & exit: its question set, ledger, elapsed time and
\* question pointer; an earlier snapshot is gone.
C20_SnapshotIsLastSave ==
  savedExam.kind = "json" =>
    /\ lastSaved.saved
    /\ savedExam.questions = lastSaved.questions
    /\ MapFromArray(savedExam.answers) = lastSaved.answers
    /\ savedExam.timeSpent = lastSaved.elapsed
    /\ savedExam.currentIdx = lastSaved.currentIdx

\* C20 witness: a resumed session was saved again with another ledger than
\* the one it was resumed with, and the slot holds the second ledger.
C20_SecondSaveStored ==
  /\ appState = "SETUP" /\ sinceSave = {}
  /\ savedExam.kind = "json"
  /\ initialAnswers # <<>> /\ initialAnswers # UndefinedAnswers
  /\ savedExam.answers # initialAnswers
  /\ MapFromArray(savedExam.answers) = lastSaved.answers

\* C19: while an exam is shown the ledger holds at most one answer for each
\* question id, every entry of the ledger is the answer to a question of
\* the question set of the session, and the ledger has at most as many
\* entries as the question set has questions.
C19_LedgerMatchesQuestions ==
  ExamMounted(appState, config) =>
    /\ \A i, j \in 1..Len(answers) :
          answers[i].questionId = answers[j].questionId => i = j
    /\ \A i \in 1..Len(answers) : FindQuestion(questions, answers[i].questionId).found
    /\ Len(answers) <= Len(questions)

\* C21: the resume button is offered in Setup exactly when the snapshot slot
\* is not empty; a resume request that finds the slot empty changes nothing,
\* and with an empty slot Setup is left for Exam only by a generation call
\* that resolves, never by a resume.
C21_ResumeOfferedIffSnapshot ==
  /\ [](appState = "SETUP" => (hasSavedExam <=> savedExam # NoItem))
  /\ [][(handleResumeExam /\ savedExam = NoItem) =>
          UNCHANGED <<appVars, storeVars, hasSavedExam, examVars>>]_vars
  /\ [][(appState = "SETUP" /\ savedExam = NoItem /\ appState' = "EXAM") =>
          genPending' < genPending]_vars

\* C21 witness: a saved session was resumed, completed and restarted; Setup
\* is shown again, the slot is empty and the button is not offered.
C21_NotOfferedAfterCompletion ==
  /\ appState = "SETUP" /\ savedExam = NoItem /\ ~hasSavedExam
  /\ {"resumed", "completed", "restarted"} \subseteq sinceSave

\* C22: with a positive time limit and a timer that keeps ticking, an exam
\* that is shown is eventually left, and the automatic submission of a
\* shown exam puts the controller into Results.
C22_TimedExamEventuallyLeft ==
  /\ (ExamMounted(appState, config) /\ config.timeLimit > 0)
       ~> (appState # "EXAM")
  /\ [][(\E t \in timers : t.live /\ AutoSubmit(t)) =>
          (appState' = "RESULTS" /\ timeSpent' = elapsed)]_vars

\* C22 witness: Results was reached by the automatic submission of an exam
\* whose time was used up; nobody pressed a button after the start.
C22_ResultsByTimeout ==
  /\ ResultsMounted(appState, config) /\ config.timeLimit > 0
  /\ timeSpent = config.timeLimit * SecondsPerMinute
  /\ history # <<>> /\ edits = 0 /\ sinceSave = {"never", "completed"}

\* C23: a judging operation that was started ends with the
\* grading-in-progress flag cleared, whether the call succeeds or fails: the
\* flag is never set forever.
C23_GradingFlagEventuallyCleared == isGrading ~> ~isGrading

\* C24 as stated: when a test-input generation call completes, the answer
\* of the question it was requested for differs from what it was just
\* before the completion in its test input only, and every other answer is
\* what it was just before the completion.
C24_TestInputOnlyChange ==
  [][\A ti \in TestInputs :
       TestCasesReturn(ti) =>
         LET qid == testGen.question.id
             before == Existing(answers, qid)
         IN /\ OthersUnchanged(answers, answers', qid)
            /\ MapHas(answers', qid)
            /\ MapGet(answers', qid) = Put(before, "testInput", ti)]_vars

\* C25 as stated: whenever the controller is in Exam the question set is
\* not empty and the question pointer is an index of it, and every
\* generation call that resolves, whatever array it returns, puts the
\* controller into Exam.
C25_PointerWithinQuestions ==
  /\ [](appState = "EXAM" =>
          /\ questions # <<>> /\ questions # UndefinedQuestions
          /\ currentIdx \in 0..(Len(questions) - 1))
  /\ [][\A qs \in scope.sets :
          (GenerationSucceeds(qs) /\ ~RootUnmounted) => appState' = "EXAM"]_vars

\* C26 as stated: whenever the controller is in Exam or in Results the
\* session configuration has not been cleared, so that the screen of the
\* state is rendered.  (A configuration that is undefined after the resume
\* of a damaged snapshot is the matter of C10 and is not counted here.)
C26_ConfigPresentInExamAndResults ==
  appState \in {"EXAM", "RESULTS"} => config # NullConfig

\* C27 as stated: when a generation call resolves and its exam is shown, the
\* ledger is empty, the elapsed time is 0 and the question pointer is 0,
\* whatever was resumed, saved, completed or restarted before.
C27_StartedSessionBeginsEmpty ==
  [][\A qs \in scope.sets :
       (GenerationSucceeds(qs) /\ ExamMounted(appState', config')) =>
         answers' = <<>> /\ elapsed' = 0 /\ currentIdx' = 0]_vars

\* the test inputs that stand for a failed call
FallbackTestInputs == TestInputs \ {"Case 1:\ngenerated"}

\* C28 as stated: a test-input generation call that fails, in whatever way,
\* leaves the exam shown and the fallback text stored as the test input of
\* the question it was requested for.
C28_TestGenerationFailureStoresFallback ==
  [][/\ (handleGenerateTestCases /\ ~apiKey) =>
          /\ ExamMounted(appState', config')
          /\ MapHas(answers', currentQuestion.id)
          /\ Prop(MapGet(answers', currentQuestion.id), "testInput")
               \in FallbackTestInputs
     /\ \A ti \in FallbackTestInputs :
          TestCasesReturn(ti) =>
            /\ ExamMounted(appState', config')
            /\ Prop(MapGet(answers', testGen.question.id), "testInput") = ti]_vars

\* C29: the progress view reports as count the number of records, as
\* average the mean of their percentages rounded to the nearest integer and
\* as best their largest percentage, and 0 for both when there is no
\* record; showing the view leaves the history as it is.
C29_ProgressStatistics ==
  /\ [](appState = "PROGRESS" =>
          LET n == Len(history)
              sum == SumPercentages(history)
          IN /\ totalExams(history) = n
             /\ n = 0 => avgScore(history) = 0 /\ topScore(history) = 0
             /\ n > 0 =>
                  /\ 2 * n * avgScore(history) - n <= 2 * sum
                  /\ 2 * sum < 2 * n * avgScore(history) + n
                  /\ \A i \in 1..n : ReadPercentage(history[i]) <= topScore(history)
                  /\ \E i \in 1..n : ReadPercentage(history[i]) = topScore(history))
  /\ [][ViewProgress => (appState' = "PROGRESS" /\ history' = history)]_vars

\* C29 witness: the view shows two records whose mean ends in one half, and
\* the average shown is the next integer.
C29_HalfRoundedUp ==
  /\ appState = "PROGRESS" /\ Len(history) = 2
  /\ SumPercentages(history) % 2 = 1
  /\ 2 * avgScore(history) = SumPercentages(history) + 1
  /\ topScore(history) > avgScore(history)

\* C30 as stated: while an exam is shown, the number on the answered badge
\* is the number of questions that the sidebar marks as answered, that is,
\* for which isAnswered is true.
C30_BadgeCountsAnsweredQuestions ==
  ExamMounted(appState, config) =>
    answeredBadge(answers) =
      Cardinality({i \in 1..Len(questions) : isAnswered(answers, questions[i].id)})
====
